---- MODULE Spec2Model ----
(***************************************************************************)
(* A model of DiscreteInterpolator                                         *)
(* (LoopStructural/interpolators/discete_interpolator.py): the region      *)
(* compaction, the soft and equality constraint accumulators, the matrix   *)
(* assembly, the solver dispatch and the staleness flag.                   *)
(*                                                                         *)
(* Conventions.  Python arrays are sequences; a Python index i is the      *)
(* position i+1 of the sequence.  A float is a record [nan, v]: NaN is     *)
(* [nan |-> TRUE, v |-> 0] and the number v is [nan |-> FALSE, v |-> v].   *)
(* The linear-algebra backends (scipy, sksparse, pyamg) are libraries      *)
(* outside the repository: what a backend returns is kept as a term        *)
(* naming the backend and the system it was given.                         *)
(***************************************************************************)
EXTENDS Integers, Sequences, FiniteSets, TLC

VARIABLES
    A, row, col, B, c_,                 \* soft triplet stores, rhs, row counter
    eq_const_C, eq_const_row, eq_const_col, eq_const_d, eq_const_c_,
    region, region_map, nx,             \* active region, compaction map, size
    solver, up_to_date, interpolation_weights,
    c, properties,                      \* self.c and support.properties[propertyname]
    op                                  \* the last call made and what it returned

soft == <<A, row, col, B, c_>>
equality == <<eq_const_C, eq_const_row, eq_const_col, eq_const_d, eq_const_c_>>
regionvars == <<region, region_map, nx>>
solvevars == <<solver, up_to_date, interpolation_weights, c, properties>>
vars == <<soft, equality, regionvars, solvevars, op>>

----------------------------------------------------------------------------
(* Bounds of the model *)

\* support.n_nodes of the support the interpolator is built on
NNodes == 2
\* the soft row counter c_ is kept at or below this
MaxRows == 3
\* the equality row counter eq_const_c_ is kept at or below this
MaxEq == 3
\* the rows each accumulator is filled to where solves are explored
MaxLife == 1
\* the rows each accumulator is filled to where assembly is explored
MaxBuild == 2

Nodes == 0 .. (NNodes - 1)

----------------------------------------------------------------------------
(* Floats *)

Num(v) == [nan |-> FALSE, v |-> v]
NaN == [nan |-> TRUE, v |-> 0]
isnan(x) == x.nan

\* A[i] in Python for a sequence A
At(s, i) == s[i + 1]

\* np.arange(0, n) as a sequence
arange(n) == [i \in 1 .. n |-> i - 1]

\* ndarray.flatten() of a 2-D array (row-major)
RECURSIVE flatten(_)
flatten(m) == IF m = <<>> THEN <<>> ELSE Head(m) \o flatten(Tail(m))

\* x[~mask] for 1-D x and a boolean mask of the same length
RECURSIVE notmasked(_, _)
notmasked(x, mask) ==
    IF x = <<>> THEN <<>>
    ELSE (IF Head(mask) THEN <<>> ELSE <<Head(x)>>) \o notmasked(Tail(x), Tail(mask))

\* x[mask] for 1-D x and a boolean mask of the same length
RECURSIVE masked(_, _)
masked(x, mask) ==
    IF x = <<>> THEN <<>>
    ELSE (IF Head(mask) THEN <<Head(x)>> ELSE <<>>) \o masked(Tail(x), Tail(mask))

\* Body(v) with v evaluated once (a local name for an intermediate result)
Bind(v, Body(_)) == CHOOSE out \in {Body(x) : x \in {v}} : TRUE

\* np.any(np.isnan(m)) for a 2-D array
anynan2(m) == \E r \in 1 .. Len(m) : \E k \in 1 .. Len(m[r]) : isnan(m[r][k])
\* np.any(np.isnan(b)) for a 1-D array
anynan1(b) == \E r \in 1 .. Len(b) : isnan(b[r])

----------------------------------------------------------------------------
(* The last call: one record shape for every operation *)

NoBatch == [A |-> <<>>, B |-> <<>>, idc |-> <<>>]
NoCall == [name |-> "init", batch |-> NoBatch, node_idx |-> <<>>, values |-> <<>>,
           mask |-> <<>>, weights |-> {}, solver |-> "",
           kwargs |-> [has_damp |-> FALSE, damp |-> FALSE],
           available |-> TRUE, solved |-> FALSE, ret |-> "None",
           warnings |-> {}, square |-> TRUE]

----------------------------------------------------------------------------
(* __init__ *)

\* self.shape of the accumulator (set by the base class)
shape == "rectangular"

IndexRegion(idx) == [bool |-> FALSE, idx |-> idx, mask |-> <<>>]
MaskRegion(mask) == [bool |-> TRUE, idx |-> <<>>, mask |-> mask]

\* a size that is the node count of the support whatever the region
RegionSizeAll(r) == NNodes

\* len(self.support.nodes[region])
RegionSize(r) == IF r.bool THEN Len(masked(r.mask, r.mask)) ELSE Len(r.idx)

\* the global node indices a region selects, in the order an indexed
\* assignment x[region] = ... visits them
RegionNodes(r) == IF r.bool THEN masked(arange(NNodes), r.mask) ELSE r.idx

Init ==
    /\ B = <<>>
    /\ region = IndexRegion(arange(NNodes))
    /\ region_map = [i \in 1 .. NNodes |-> 0]
    /\ nx = RegionSize(IndexRegion(arange(NNodes)))
    /\ c_ = 0
    /\ A = <<>>
    /\ col = <<>>
    /\ row = <<>>
    /\ solver = "None"
    /\ eq_const_C = <<>>
    /\ eq_const_row = <<>>
    /\ eq_const_col = <<>>
    /\ eq_const_d = <<>>
    /\ eq_const_c_ = 0
    /\ up_to_date = FALSE
    /\ interpolation_weights = {}
    /\ c = <<>>
    /\ properties = <<>>
    /\ op = NoCall

----------------------------------------------------------------------------
(* set_region *)

\* region_map = zeros; region_map[region] = range(0, count)
RegionMapOf(r) ==
    LET nodes == RegionNodes(r)
    IN  [i \in 1 .. NNodes |->
            IF \E k \in 1 .. Len(nodes) : nodes[k] = i - 1
            THEN (CHOOSE k \in 1 .. Len(nodes) : nodes[k] = i - 1) - 1
            ELSE 0]

set_region(mask) ==
    /\ region' = MaskRegion(mask)
    /\ region_map' = RegionMapOf(MaskRegion(mask))
    /\ nx' = RegionSize(MaskRegion(mask))
    /\ op' = [NoCall EXCEPT !.name = "set_region", !.mask = mask]
    /\ UNCHANGED <<soft, equality, solvevars>>

----------------------------------------------------------------------------
(* set_interpolation_weights: weights is a dict, a set of <<key, value>> *)

Keys(d) == {kv[1] : kv \in d}

set_interpolation_weights(weights) ==
    /\ up_to_date' = IF weights = {} THEN up_to_date ELSE FALSE
    /\ interpolation_weights' =
           {kv \in interpolation_weights : kv[1] \notin Keys(weights)} \cup weights
    /\ op' = [NoCall EXCEPT !.name = "set_interpolation_weights", !.weights = weights]
    /\ UNCHANGED <<soft, equality, regionvars, solver, c, properties>>

----------------------------------------------------------------------------
(* reset *)

\* a reset that leaves the right-hand-side store as it is
resetKeepsB ==
    /\ c_' = 0
    /\ A' = <<>>
    /\ col' = <<>>
    /\ row' = <<>>
    /\ eq_const_C' = <<>>
    /\ eq_const_row' = <<>>
    /\ eq_const_col' = <<>>
    /\ eq_const_d' = <<>>
    /\ eq_const_c_' = 0
    /\ op' = [NoCall EXCEPT !.name = "reset"]
    /\ UNCHANGED <<B, regionvars, solvevars>>

reset ==
    /\ c_' = 0
    /\ A' = <<>>
    /\ col' = <<>>
    /\ row' = <<>>
    /\ eq_const_C' = <<>>
    /\ eq_const_row' = <<>>
    /\ eq_const_col' = <<>>
    /\ eq_const_d' = <<>>
    /\ eq_const_c_' = 0
    /\ B' = <<>>
    /\ op' = [NoCall EXCEPT !.name = "reset"]
    /\ UNCHANGED <<regionvars, solvevars>>

----------------------------------------------------------------------------
(* add_constraints_to_least_squares *)

\* the NaN test without the look at the right-hand side
BatchHasNanNoRhs(batch) == anynan2(batch.idc) \/ anynan2(batch.A)

\* the NaN test that rejects a batch
BatchHasNan(batch) ==
    anynan2(batch.idc) \/ anynan2(batch.A) \/ anynan1(batch.B)

\* nr = A.shape[0]
BatchRows(batch) == Len(batch.A)

\* the row indices without the running counter added
RowIndicesFromZero(batch, c0) ==
    [r \in 1 .. Len(batch.A) |-> [k \in 1 .. Len(batch.A[r]) |-> r - 1]]

\* rows = np.tile(np.arange(0, nr), (A.shape[-1], 1)).T + c_
RowIndices(batch, c0) ==
    [r \in 1 .. BatchRows(batch) |-> [k \in 1 .. Len(batch.A[r]) |-> (r - 1) + c0]]

\* a mask that strips nothing
ZeroMaskNothing(batch) == [i \in 1 .. Len(flatten(batch.A)) |-> FALSE]

\* mask = A == 0 on the flattened coefficients
ZeroMask(batch) ==
    LET a == flatten(batch.A) IN [i \in 1 .. Len(a) |-> a[i] = Num(0)]

add_constraints_to_least_squares(batch) ==
    /\ op' = [NoCall EXCEPT !.name = "add_constraints_to_least_squares",
                            !.batch = batch]
    /\ IF BatchHasNan(batch)
       THEN UNCHANGED soft
       ELSE /\ c_' = c_ + BatchRows(batch)
            /\ IF shape = "rectangular"
               THEN /\ A' = A \o notmasked(flatten(batch.A), ZeroMask(batch))
                    /\ row' = row \o notmasked(flatten(RowIndices(batch, c_)),
                                               ZeroMask(batch))
                    /\ col' = col \o notmasked(flatten(batch.idc), ZeroMask(batch))
                    /\ B' = B \o batch.B
               ELSE UNCHANGED <<A, row, col, B>>
    /\ UNCHANGED <<equality, regionvars, solvevars>>

----------------------------------------------------------------------------
(* add_equality_constraints *)

\* gi = -1 everywhere, then gi[self.region] = np.arange(0, self.nx)
GlobalToLocal(r, n) ==
    LET nodes == RegionNodes(r)
    IN  [i \in 1 .. NNodes |->
            IF \E k \in 1 .. n : nodes[k] = i - 1
            THEN (CHOOSE k \in 1 .. n : nodes[k] = i - 1) - 1
            ELSE -1]

\* idc = gi[node_idx]
LocalOf(r, n, node_idx) ==
    [k \in 1 .. Len(node_idx) |-> At(GlobalToLocal(r, n), node_idx[k])]

\* a selection that keeps every node
RetainedAll(idc) == [k \in 1 .. Len(idc) |-> TRUE]

\* outside = ~(idc == -1): true for the nodes that are kept
Retained(idc) == [k \in 1 .. Len(idc) |-> ~(idc[k] = -1)]

add_equality_constraints(node_idx, values) ==
    LET idc == LocalOf(region, nx, node_idx)
        outside == Retained(idc)
        kept == masked(idc, outside)
    IN  /\ eq_const_C' = eq_const_C \o [k \in 1 .. Len(kept) |-> Num(1)]
        /\ eq_const_col' = eq_const_col \o kept
        /\ eq_const_row' = eq_const_row \o arange(Len(kept))
        /\ eq_const_d' = eq_const_d \o masked(values, outside)
        /\ eq_const_c_' = eq_const_c_ + Len(kept)
        /\ op' = [NoCall EXCEPT !.name = "add_equality_constraints",
                                !.node_idx = node_idx, !.values = values]
        /\ UNCHANGED <<soft, regionvars, solvevars>>

----------------------------------------------------------------------------
(* build_matrix *)

RECURSIVE SumSeq(_)
SumSeq(s) == IF s = <<>> THEN 0 ELSE Head(s) + SumSeq(Tail(s))

\* what build_matrix hands back: the matrix M (plus eps on the diagonal when
\* damped) and the right-hand side, with the assembly that was asked for; ok
\* is FALSE when it raised instead
NoSystem == [ok |-> FALSE, M |-> <<>>, rhs |-> <<>>, damped |-> FALSE,
             square |-> FALSE]

\* an index check that also fails when equality rows are held
CooValidNoEquality(rows, cols, nr, nc) ==
    /\ eq_const_c_ = 0
    /\ Len(rows) = Len(cols)
    /\ \A k \in 1 .. Len(rows) : rows[k] \in 0 .. (nr - 1)
    /\ \A k \in 1 .. Len(cols) : cols[k] \in 0 .. (nc - 1)

\* coo_matrix((vals, (rows, cols)), shape=(nr, nc)) raises ValueError on an
\* index outside the shape
CooValid(rows, cols, nr, nc) ==
    /\ Len(rows) = Len(cols)
    /\ \A k \in 1 .. Len(rows) : rows[k] \in 0 .. (nr - 1)
    /\ \A k \in 1 .. Len(cols) : cols[k] \in 0 .. (nc - 1)

\* the dense content of the coo matrix: duplicate entries are summed
Coo(vals, rows, cols, nr, nc) ==
    [i \in 1 .. nr |-> [j \in 1 .. nc |->
        SumSeq([k \in 1 .. Len(vals) |->
                   IF rows[k] = i - 1 /\ cols[k] = j - 1 THEN vals[k] ELSE 0])]]

NumberOf(x) == [k \in 1 .. Len(x) |-> x[k].v]

\* a product that keeps the squares and drops the cross terms
AtADiagonal(M, nr, nc) ==
    [i \in 1 .. nc |-> [j \in 1 .. nc |->
        IF i = j THEN SumSeq([r \in 1 .. nr |-> M[r][i] * M[r][i]]) ELSE 0]]

\* A.T.dot(A)
AtA(M, nr, nc) ==
    [i \in 1 .. nc |-> [j \in 1 .. nc |->
        SumSeq([r \in 1 .. nr |-> M[r][i] * M[r][j]])]]

\* A.T.dot(B)
AtB(M, b, nr, nc) ==
    [i \in 1 .. nc |-> SumSeq([r \in 1 .. nr |-> M[r][i] * b[r]])]

\* a bordering that leaves out the transposed block
BorderedLower(AAT, C, n, k) ==
    [i \in 1 .. (n + k) |-> [j \in 1 .. (n + k) |->
        IF i <= n /\ j <= n THEN AAT[i][j]
        ELSE IF j <= n /\ i > n THEN C[i - n][j]
        ELSE 0]]

\* bmat([[AAT, C.T], [C, None]])
Bordered(AAT, C, n, k) ==
    [i \in 1 .. (n + k) |-> [j \in 1 .. (n + k) |->
        IF i <= n /\ j <= n THEN AAT[i][j]
        ELSE IF i <= n THEN C[j - n][i]
        ELSE IF j <= n THEN C[i - n][j]
        ELSE 0]]

build_matrix(square, damp) ==
    IF ~CooValid(row, NumberOf(col), c_, nx) THEN NoSystem
    ELSE
    Bind(Coo(NumberOf(A), row, NumberOf(col), c_, nx), LAMBDA M :
    Bind(NumberOf(B), LAMBDA b :
        IF ~square THEN [ok |-> TRUE, M |-> M, rhs |-> b, damped |-> FALSE,
                         square |-> FALSE]
        ELSE IF Len(b) # c_ THEN NoSystem
        ELSE
        Bind(AtA(M, c_, nx), LAMBDA AAT :
        Bind(AtB(M, b, c_, nx), LAMBDA BT :
            IF eq_const_c_ > 0
            THEN IF ~CooValid(eq_const_row, eq_const_col, eq_const_c_, nx)
                 THEN NoSystem
                 ELSE Bind(Coo(NumberOf(eq_const_C), eq_const_row,
                               eq_const_col, eq_const_c_, nx), LAMBDA C :
                          [ok |-> TRUE,
                           M |-> Bordered(AAT, C, nx, eq_const_c_),
                           rhs |-> BT \o NumberOf(eq_const_d),
                           damped |-> damp, square |-> TRUE])
            ELSE [ok |-> TRUE, M |-> AAT, rhs |-> BT, damped |-> damp,
                  square |-> TRUE]))))

\* a call of build_matrix: nothing of the interpolator changes
BuildMatrix(square, damp) ==
    /\ op' = [NoCall EXCEPT !.name = "build_matrix", !.square = square,
                            !.kwargs = [has_damp |-> TRUE, damp |-> damp],
                            !.ret = IF build_matrix(square, damp).ok
                                    THEN "None" ELSE "raised"]
    /\ UNCHANGED <<soft, equality, regionvars, solvevars>>

----------------------------------------------------------------------------
(* The backends and _solve *)

\* an entry of self.c: NaN, 0.0, or entry i of what backend `by` returned
\* for the system sys (opt: the damp option lsqr was handed)
NanValue == [kind |-> "nan", by |-> "", sys |-> NoSystem, opt |-> FALSE, i |-> 0]
ZeroValue == [kind |-> "zero", by |-> "", sys |-> NoSystem, opt |-> FALSE, i |-> 0]
SolValue(by, sys, opt, i) ==
    [kind |-> "sol", by |-> by, sys |-> sys, opt |-> opt, i |-> i]

AllZero(v) == \A k \in 1 .. Len(v) : v[k] = 0

\* the n-entry vector a backend returns for a system of n unknowns: cg, lu
\* and lsqr return exact zeros for a zero right-hand side
Backend(by, sys, opt, n) ==
    [k \in 1 .. n |->
        IF by \in {"cg", "lu", "lsqr"} /\ AllZero(sys.rhs)
        THEN ZeroValue
        ELSE SolValue(by, sys, opt, k - 1)]

\* splu raises on an exactly singular matrix: here, one with a zero row
Singular(sys) ==
    /\ ~sys.damped
    /\ \E i \in 1 .. Len(sys.M) : AllZero(sys.M[i])

\* the last n entries of a vector
LastN(x, n) ==
    [k \in 1 .. (IF n < Len(x) THEN n ELSE Len(x)) |->
        x[k + (IF n < Len(x) THEN Len(x) - n ELSE 0)]]

\* x[:n]
FirstN(x, n) == [k \in 1 .. (IF n < Len(x) THEN n ELSE Len(x)) |-> x[k]]

\* the unknowns of a square system: the field values and, behind them, one
\* Lagrange multiplier for each equality row
Unknowns(sys) == Len(sys.rhs)

_solve_cg(sys, n) == FirstN(Backend("cg", sys, FALSE, Unknowns(sys)), n)

\* returns False when sksparse cannot be imported
_solve_chol(sys, n, available) ==
    IF available THEN FirstN(Backend("chol", sys, FALSE, Unknowns(sys)), n)
    ELSE [k \in 1 .. n |-> ZeroValue]

_solve_lu(sys, n) == FirstN(Backend("lu", sys, FALSE, Unknowns(sys)), n)

\* lsqr on the rectangular system, whose n columns are the field values
_solve_lsqr(sys, n, kwargs) ==
    Backend("lsqr", sys, kwargs.has_damp /\ kwargs.damp, n)

_solve_pyamg(sys, n, available) ==
    IF available THEN FirstN(Backend("pyamg", sys, FALSE, Unknowns(sys)), n)
    ELSE _solve_cg(sys, n)

\* self.c = np.zeros(n_nodes); self.c[:] = np.nan
NanField == [i \in 1 .. NNodes |-> NanValue]

\* self.c[self.region] = x
Scatter(field, r, x) ==
    LET nodes == RegionNodes(r)
    IN  [i \in 1 .. NNodes |->
            IF \E k \in 1 .. Len(nodes) : nodes[k] = i - 1
            THEN x[CHOOSE k \in 1 .. Len(nodes) : nodes[k] = i - 1]
            ELSE field[i]]

\* x == y on floats: never true when a side is NaN
FloatEq(x, y) == x.kind # "nan" /\ y.kind # "nan" /\ x = y

NotRunWarning == "Solver not run, no scalar field"
NoSolutionWarning == "No solution, scalar field 0. Add more data."

\* the warnings _solve logs for the field it has just published:
\* np.all(self.c == np.nan) and np.all(self.c[self.region] == 0)
Diagnostics(field, r) ==
    (IF \A i \in 1 .. Len(field) : FloatEq(field[i], NanValue)
     THEN {NotRunWarning} ELSE {})
    \cup
    (IF \A k \in 1 .. Len(RegionNodes(r)) :
            FloatEq(field[RegionNodes(r)[k] + 1], ZeroValue)
     THEN {NoSolutionWarning} ELSE {})

SolverNames == {"cg", "chol", "lu", "lsqr", "pyamg", "external"}

\* the system _solve assembles for a solver name
SystemFor(name, kwargs) ==
    IF name = "lsqr" THEN build_matrix(FALSE, TRUE)
    ELSE build_matrix(TRUE, IF kwargs.has_damp THEN kwargs.damp ELSE TRUE)

\* the vector the chosen backend hands back, cut to the region
Dispatch(name, kwargs, available, sys) ==
    IF name = "cg" THEN _solve_cg(sys, nx)
    ELSE IF name = "chol" THEN _solve_chol(sys, nx, available)
    ELSE IF name = "lu" THEN _solve_lu(sys, nx)
    ELSE IF name = "pyamg" THEN _solve_pyamg(sys, nx, available)
    ELSE IF name = "lsqr" THEN _solve_lsqr(sys, nx, kwargs)
    ELSE FirstN(Backend("external", sys, FALSE, Unknowns(sys)), nx)

\* _solve: whether it raised (in build_matrix, or in splu), self.c as it
\* leaves it and the warnings it logged; self.c is published on the support
\* unless it raised
_solve(name, kwargs, available) ==
    Bind(SystemFor(name, kwargs), LAMBDA sys :
        IF ~sys.ok \/ (name = "lu" /\ Singular(sys))
        THEN [raised |-> TRUE, c |-> NanField, warnings |-> {}]
        ELSE Bind(IF name \in SolverNames
                  THEN Scatter(NanField, region,
                               Dispatch(name, kwargs, available, sys))
                  ELSE NanField, LAMBDA field :
                 [raised |-> FALSE, c |-> field,
                  warnings |-> Diagnostics(field, region)]))

NoKwargs == [has_damp |-> FALSE, damp |-> FALSE]

\* a call of _solve: self.c is replaced and, unless it raised, published
Solve(name, kwargs, available) ==
    \E r \in {_solve(name, kwargs, available)} :
        /\ c' = r.c
        /\ properties' = IF r.raised THEN properties ELSE r.c
        /\ op' = [NoCall EXCEPT !.name = "_solve", !.solver = name,
                                !.kwargs = kwargs, !.available = available,
                                !.solved = ~r.raised,
                                !.warnings = r.warnings,
                                !.ret = IF r.raised THEN "raised" ELSE "None"]
        /\ UNCHANGED <<soft, equality, regionvars, solver, up_to_date,
                       interpolation_weights>>

\* setup_interpolator of the base class
setup_interpolator == UNCHANGED <<soft, equality, regionvars>>

\* solve_system of the base class: set up, solve with the named solver,
\* remember the solver and mark the result current
solve_system(name, kwargs, available) ==
    \E r \in {_solve(name, kwargs, available)} :
        /\ setup_interpolator
        /\ c' = r.c
        /\ properties' = IF r.raised THEN properties ELSE r.c
        /\ solver' = IF r.raised THEN solver ELSE name
        /\ up_to_date' = IF r.raised THEN up_to_date ELSE TRUE
        /\ op' = [NoCall EXCEPT !.name = "solve_system", !.solver = name,
                                !.kwargs = kwargs, !.available = available,
                                !.solved = ~r.raised,
                                !.warnings = r.warnings,
                                !.ret = IF r.raised THEN "raised" ELSE "None"]
        /\ UNCHANGED interpolation_weights

----------------------------------------------------------------------------
(* update *)

\* an update that does not consult up_to_date
updateAlways(available) ==
    IF solver = "None"
    THEN /\ op' = [NoCall EXCEPT !.name = "update", !.ret = "False"]
         /\ UNCHANGED <<soft, equality, regionvars, solvevars>>
    ELSE \E r \in {_solve(solver, NoKwargs, available)} :
             /\ setup_interpolator
             /\ c' = r.c
             /\ properties' = IF r.raised THEN properties ELSE r.c
             /\ op' = [NoCall EXCEPT !.name = "update", !.solver = solver,
                                     !.available = available,
                                     !.solved = ~r.raised,
                                     !.warnings = r.warnings,
                                     !.ret = IF r.raised THEN "raised" ELSE "None"]
             /\ UNCHANGED <<solver, up_to_date, interpolation_weights>>

update(available) ==
    IF solver = "None"
    THEN /\ op' = [NoCall EXCEPT !.name = "update", !.ret = "False"]
         /\ UNCHANGED <<soft, equality, regionvars, solvevars>>
    ELSE IF ~up_to_date
    THEN \E r \in {_solve(solver, NoKwargs, available)} :
             /\ setup_interpolator
             /\ c' = r.c
             /\ properties' = IF r.raised THEN properties ELSE r.c
             /\ op' = [NoCall EXCEPT !.name = "update", !.solver = solver,
                                     !.available = available,
                                     !.solved = ~r.raised,
                                     !.warnings = r.warnings,
                                     !.ret = IF r.raised THEN "raised" ELSE "None"]
             /\ UNCHANGED <<solver, up_to_date, interpolation_weights>>
    ELSE /\ op' = [NoCall EXCEPT !.name = "update"]
         /\ UNCHANGED <<soft, equality, regionvars, solvevars>>

----------------------------------------------------------------------------
(* Inputs *)

Masks == [1 .. NNodes -> BOOLEAN]

WeightDicts == {{<<"cgw", 1>>}}

Coefs == {Num(0), Num(1), NaN}
Columns == {Num(0), Num(1), NaN}
Rhs == {Num(0), Num(1), NaN}

\* batches of one row and up to two columns, or two rows of one column
Shapes == {<<1, 1>>, <<1, 2>>, <<2, 1>>}
BatchesOfShape(s) ==
    [A : [1 .. s[1] -> [1 .. s[2] -> Coefs]],
     B : [1 .. s[1] -> Rhs],
     idc : [1 .. s[1] -> [1 .. s[2] -> Columns]]]

NanCount(batch) ==
    Cardinality({i \in 1 .. Len(flatten(batch.A)) : isnan(flatten(batch.A)[i])})
    + Cardinality({i \in 1 .. Len(flatten(batch.idc)) : isnan(flatten(batch.idc)[i])})
    + Cardinality({i \in 1 .. Len(batch.B) : isnan(batch.B[i])})

\* every NaN-free batch
CleanBatches == {b \in UNION {BatchesOfShape(s) : s \in Shapes} : NanCount(b) = 0}

\* two-row batches with one NaN (a coefficient, a column index or a
\* right-hand side, in either row) beside entries that would be stored
NanBatches ==
    {b \in BatchesOfShape(<<2, 1>>) :
        /\ NanCount(b) = 1
        /\ \A r \in 1 .. 2 : b.A[r][1] # Num(0) /\ b.idc[r][1] # Num(1) /\ b.B[r] # Num(0)}

Batches == CleanBatches \cup NanBatches

NodeLists == UNION {[1 .. n -> Nodes] : n \in 1 .. 2}
\* the values supplied with a node list: 1 for the first node, 2 for the second
ValuesFor(node_idx) == [k \in 1 .. Len(node_idx) |-> Num(k)]

----------------------------------------------------------------------------
(* The soft accumulator alone *)

AddSoft ==
    \E batch \in Batches :
        /\ c_ + BatchRows(batch) <= MaxRows
        /\ add_constraints_to_least_squares(batch)

NextSoft == AddSoft \/ reset

SpecSoft == Init /\ [][NextSoft]_vars

----------------------------------------------------------------------------
(* The region and the equality accumulator alone *)

SetRegion == \E mask \in Masks : set_region(mask)

AddEquality ==
    \E node_idx \in NodeLists :
        /\ eq_const_c_ + Len(node_idx) <= MaxEq
        /\ add_equality_constraints(node_idx, ValuesFor(node_idx))

NextEq == SetRegion \/ AddEquality \/ reset

SpecEq == Init /\ [][NextEq]_vars

----------------------------------------------------------------------------
(* The whole interpolator: accumulate, solve, update *)

\* the soft constraint x0 = 1
LifeBatches ==
    {[A |-> <<<<Num(1)>>>>, B |-> <<Num(1)>>, idc |-> <<<<Num(0)>>>>]}

\* a pin on the second node of the support
LifeNodeLists == {<<1>>}

\* solver names a caller passes: the six backends and an unknown name
CallNames == SolverNames \cup {"simplex"}

\* whether the optional library behind a backend can be imported
Availability(name) == IF name \in {"chol", "pyamg"} THEN BOOLEAN ELSE {TRUE}

KwargsSets == {NoKwargs}
\* damp=False passed to _solve
UndampedKwargs == [has_damp |-> TRUE, damp |-> FALSE]

LifeAddSoft ==
    \E batch \in LifeBatches :
        /\ c_ + BatchRows(batch) <= MaxLife
        /\ add_constraints_to_least_squares(batch)

LifeAddEquality ==
    \E node_idx \in LifeNodeLists :
        /\ eq_const_c_ + Len(node_idx) <= MaxLife
        /\ add_equality_constraints(node_idx, ValuesFor(node_idx))

\* the whole support, or the support without its first node
LifeMasks == {mask \in Masks : \A i \in 2 .. NNodes : mask[i]}

LifeSetRegion == \E mask \in LifeMasks : set_region(mask)

SetWeights == \E w \in WeightDicts : set_interpolation_weights(w)

CallSolveSystem ==
    \E name \in CallNames : \E kwargs \in KwargsSets :
        \E available \in Availability(name) : solve_system(name, kwargs, available)

CallUpdate == \E available \in Availability(solver) : update(available)

CallSolve ==
    \E name \in CallNames : \E kwargs \in KwargsSets \cup {UndampedKwargs} :
        \E available \in Availability(name) : Solve(name, kwargs, available)

Next ==
    \/ LifeSetRegion
    \/ SetWeights
    \/ reset
    \/ LifeAddSoft
    \/ LifeAddEquality
    \/ CallSolveSystem
    \/ CallUpdate

Spec == Init /\ [][Next]_vars

----------------------------------------------------------------------------
(* Accumulate, change the region and assemble *)

\* single rows: 2*x0 + x1 = 1, x0 = 1, x1 + x1 = 1
BuildBatches ==
    {[A |-> <<<<Num(2), Num(1)>>>>, B |-> <<Num(1)>>,
      idc |-> <<<<Num(0), Num(1)>>>>],
     [A |-> <<<<Num(1)>>>>, B |-> <<Num(1)>>, idc |-> <<<<Num(0)>>>>],
     [A |-> <<<<Num(1), Num(1)>>>>, B |-> <<Num(1)>>,
      idc |-> <<<<Num(1), Num(1)>>>>]}

\* a pin on the first node, a pin on the second
BuildNodeLists == {<<0>>, <<1>>}

BuildAddSoft ==
    \E batch \in BuildBatches :
        /\ c_ + BatchRows(batch) <= MaxBuild
        /\ add_constraints_to_least_squares(batch)

BuildAddEquality ==
    \E node_idx \in BuildNodeLists :
        /\ eq_const_c_ + Len(node_idx) <= MaxBuild
        /\ add_equality_constraints(node_idx, ValuesFor(node_idx))

CallBuildMatrix == \E square \in BOOLEAN : \E damp \in BOOLEAN : BuildMatrix(square, damp)

NextBuild ==
    \/ SetRegion
    \/ reset
    \/ BuildAddSoft
    \/ BuildAddEquality
    \/ CallBuildMatrix

SpecBuild == Init /\ [][NextBuild]_vars

----------------------------------------------------------------------------
(* Accumulate, assemble and call _solve, without the base class *)

\* the soft constraints x0 = 1 and 2*x0 + x1 = 1
SolveBatches ==
    LifeBatches \cup {[A |-> <<<<Num(2), Num(1)>>>>, B |-> <<Num(1)>>,
                       idc |-> <<<<Num(0), Num(1)>>>>]}

SolveAddSoft ==
    \E batch \in SolveBatches :
        /\ c_ + BatchRows(batch) <= MaxLife
        /\ add_constraints_to_least_squares(batch)

NextSolve ==
    \/ LifeSetRegion
    \/ reset
    \/ SolveAddSoft
    \/ LifeAddEquality
    \/ CallSolve
    \/ CallBuildMatrix

SpecSolve == Init /\ [][NextSolve]_vars

----------------------------------------------------------------------------
(* Vocabulary of the properties *)

IsAddSoft(call) == call.name = "add_constraints_to_least_squares"
IsAddEquality(call) == call.name = "add_equality_constraints"

\* the positions <<r, k>> of a batch whose coefficient is not zero
NonZeroPositions(batch) ==
    {p \in (1 .. Len(batch.A)) \X (1 .. 2) :
        p[2] <= Len(batch.A[p[1]]) /\ batch.A[p[1]][p[2]] # Num(0)}

\* the triplets <<coefficient, row, column>> stored at positions lo .. hi
Triplets(vals, rows, cols, lo, hi) ==
    {<<vals[i], rows[i], cols[i]>> : i \in lo .. hi}

IsPrefix(s, t) == Len(s) <= Len(t) /\ \A i \in 1 .. Len(s) : t[i] = s[i]

\* whether a global node is active in a region, and its rank among the
\* active nodes
Active(r, node) ==
    IF r.bool THEN r.mask[node + 1] ELSE \E k \in 1 .. Len(r.idx) : r.idx[k] = node
LocalIndex(r, node) == Cardinality({m \in Nodes : m < node /\ Active(r, m)})

----------------------------------------------------------------------------
(* C1: a batch with a NaN anywhere (coefficients, column indices or       *)
(* right-hand side) is rejected whole: A, row, col, B and c_ are the same  *)
(* after the call as before it.                                            *)
C1_NanBatchRejected ==
    [][(IsAddSoft(op') /\ NanCount(op'.batch) > 0)
          => (A' = A /\ row' = row /\ col' = col /\ B' = B /\ c_' = c_)]_vars

\* a NaN batch was passed to an accumulator that already holds rows
C1_Witness ==
    /\ IsAddSoft(op)
    /\ NanCount(op.batch) > 0
    /\ c_ > 0
    /\ Len(A) > 0

(* C2: for a NaN-free batch the zero coefficients are not stored, every    *)
(* non-zero coefficient is stored with its assigned row and its column,    *)
(* and the right-hand side of every row of the batch is appended to B.     *)
C2_ZeroStrippedRhsKept ==
    [][(IsAddSoft(op') /\ NanCount(op'.batch) = 0)
          => /\ IsPrefix(A, A') /\ IsPrefix(row, row') /\ IsPrefix(col, col')
             /\ Len(A') = Len(row') /\ Len(A') = Len(col')
             /\ Len(A') = Len(A) + Cardinality(NonZeroPositions(op'.batch))
             /\ \A i \in 1 .. Len(A') : A'[i] # Num(0)
             /\ Triplets(A', row', col', Len(A) + 1, Len(A'))
                  = {<<op'.batch.A[p[1]][p[2]], c_ + p[1] - 1,
                       op'.batch.idc[p[1]][p[2]]>> :
                         p \in NonZeroPositions(op'.batch)}
             /\ B' = B \o op'.batch.B]_vars

\* a batch with an all-zero row and a non-zero coefficient was added
C2_Witness ==
    /\ IsAddSoft(op)
    /\ NanCount(op.batch) = 0
    /\ \E r \in 1 .. Len(op.batch.A) :
           \A k \in 1 .. Len(op.batch.A[r]) : op.batch.A[r][k] = Num(0)
    /\ NonZeroPositions(op.batch) # {}
    /\ Len(B) > Len(A)

(* C3: an accepted batch of nr rows gets the row indices c_ .. c_+nr-1 and *)
(* advances c_ by nr; c_ never decreases, and no row index is handed out   *)
(* twice, until reset sets c_ back to 0.                                   *)
C3_RowCounter ==
    [][/\ (IsAddSoft(op') /\ NanCount(op'.batch) = 0)
             => /\ c_' = c_ + Len(op'.batch.A)
                /\ \A i \in 1 .. Len(row) : row'[i] = row[i] /\ row[i] < c_
                /\ {row'[i] : i \in (Len(row) + 1) .. Len(row')}
                     = {c_ + p[1] - 1 : p \in NonZeroPositions(op'.batch)}
       /\ (op'.name = "reset" => c_' = 0)
       /\ (op'.name # "reset" => c_' >= c_)]_vars

\* a two-row batch was added after an earlier batch
C3_Witness ==
    /\ IsAddSoft(op)
    /\ NanCount(op.batch) = 0
    /\ Len(op.batch.A) = 2
    /\ c_ = 3
    /\ \E i, j \in 1 .. Len(row) : row[i] = 1 /\ row[j] = 2

(* C4: add_equality_constraints creates no entry for a node outside the    *)
(* region and one unit entry per node inside it, whose column is the       *)
(* node's region-local index and whose target is the value given for the   *)
(* node; eq_const_c_ grows by the number of nodes kept.                     *)
C4_EqualityInRegion ==
    [][IsAddEquality(op')
          => LET n == op'.node_idx
                 v == op'.values
                 K == {k \in 1 .. Len(n) : Active(region, n[k])}
                 lo == Len(eq_const_C) + 1
                 hi == Len(eq_const_C')
             IN  /\ IsPrefix(eq_const_C, eq_const_C')
                 /\ IsPrefix(eq_const_col, eq_const_col')
                 /\ IsPrefix(eq_const_row, eq_const_row')
                 /\ IsPrefix(eq_const_d, eq_const_d')
                 /\ hi = Len(eq_const_C) + Cardinality(K)
                 /\ Len(eq_const_col') = hi
                 /\ Len(eq_const_row') = hi
                 /\ Len(eq_const_d') = hi
                 /\ eq_const_c_' = eq_const_c_ + Cardinality(K)
                 /\ \A i \in lo .. hi : eq_const_C'[i] = Num(1)
                 /\ {<<eq_const_col'[i], eq_const_d'[i]>> : i \in lo .. hi}
                      = {<<LocalIndex(region, n[k]), v[k]>> : k \in K}]_vars

\* a call named a node outside the region and a node inside it whose local
\* index is not its global index
C4_Witness ==
    /\ IsAddEquality(op)
    /\ \E k \in 1 .. Len(op.node_idx) : ~Active(region, op.node_idx[k])
    /\ \E k \in 1 .. Len(op.node_idx) :
           /\ Active(region, op.node_idx[k])
           /\ LocalIndex(region, op.node_idx[k]) # op.node_idx[k]
    /\ eq_const_c_ > 0

(* C5: reset empties every soft and equality store and the right-hand    *)
(* side store, sets c_ and eq_const_c_ to 0, and leaves the region, the    *)
(* compaction map, nx, the selected solver and the published field alone.  *)
C5_ResetFrame ==
    [][op'.name = "reset"
          => /\ A' = <<>> /\ row' = <<>> /\ col' = <<>> /\ B' = <<>>
             /\ eq_const_C' = <<>> /\ eq_const_row' = <<>>
             /\ eq_const_col' = <<>> /\ eq_const_d' = <<>>
             /\ c_' = 0 /\ eq_const_c_' = 0
             /\ region' = region /\ region_map' = region_map /\ nx' = nx
             /\ solver' = solver /\ properties' = properties]_vars

\* reset was called on an interpolator with a region set, a solver selected
\* and a field published
C5_Witness ==
    /\ op.name = "reset"
    /\ region.bool
    /\ solver # "None"
    /\ properties # <<>>

(* C6: every mutation of the constraints, of the weights or of the region  *)
(* leaves the interpolator stale, and every solve that completes leaves it *)
(* current.                                                                *)
Mutations ==
    {"add_constraints_to_least_squares", "add_equality_constraints", "reset",
     "set_interpolation_weights", "set_region"}

C6_Staleness ==
    [][/\ (op'.name \in Mutations => ~up_to_date')
       /\ (op'.solved => up_to_date')]_vars

(* C7: after a solve and the addition of a constraint, update() assembles  *)
(* and solves again with the solver used before and republishes the field, *)
(* and the interpolator is then current.                                   *)
C7_UpdateResolves ==
    [][(/\ IsAddSoft(op) \/ IsAddEquality(op)
        /\ solver # "None"
        /\ op'.name = "update"
        /\ ~_solve(solver, NoKwargs, op'.available).raised)
          => /\ op'.solved
             /\ properties' = _solve(solver, NoKwargs, op'.available).c
             /\ up_to_date']_vars

(* C8: update() does nothing when no solver was ever selected (it returns  *)
(* False) and when the interpolator is current: the stores, the counters,  *)
(* the region and the published field are as they were.                     *)
C8_UpdateNoOp ==
    [][(op'.name = "update" /\ (solver = "None" \/ up_to_date))
          => /\ ~op'.solved
             /\ (solver = "None" => op'.ret = "False")
             /\ soft' = soft /\ equality' = equality
             /\ regionvars' = regionvars
             /\ properties' = properties /\ c' = c
             /\ solver' = solver /\ up_to_date' = up_to_date]_vars

\* update was called on a current interpolator that holds constraints
C8_Witness ==
    /\ op.name = "update"
    /\ solver # "None"
    /\ up_to_date
    /\ properties # <<>>
    /\ c_ > 0

(* C9: a solve asked for chol or pyamg while the library behind it is      *)
(* missing does not fail and publishes the field a cg solve publishes on   *)
(* the same accumulated system.                                            *)
C9_FallbackIsCg ==
    [][(/\ op'.name = "_solve"
        /\ op'.solver \in {"chol", "pyamg"}
        /\ ~op'.available
        /\ ~_solve("cg", op'.kwargs, TRUE).raised)
          => /\ op'.solved
             /\ properties' = _solve("cg", op'.kwargs, TRUE).c]_vars

(* C10: a solve with a solver name that is none of cg, chol, lu, lsqr,     *)
(* pyamg, external surfaces an error and publishes no field.               *)
C10_UnknownSolverRejected ==
    [][(op'.name = "_solve" /\ op'.solver \notin SolverNames)
          => /\ op'.ret = "raised"
             /\ properties' = properties]_vars

----------------------------------------------------------------------------
\* the backend that runs for a solver name: cg stands in for a missing pyamg
RanBackend(name, available) ==
    IF name = "pyamg" /\ ~available THEN "cg" ELSE name

\* the whole vector the backend returns for the system sys: one entry per
\* column for lsqr, one per unknown of the square system otherwise
SolutionOf(name, kwargs, available, sys) ==
    Backend(RanBackend(name, available), sys,
            name = "lsqr" /\ kwargs.has_damp /\ kwargs.damp,
            IF name = "lsqr" THEN nx ELSE Len(sys.rhs))

----------------------------------------------------------------------------
\* a field that is NaN, or 0.0, at every node of the region
AllNanInRegion(field, r) ==
    \A node \in Nodes : Active(r, node) => field[node + 1].kind = "nan"
AllZeroInRegion(field, r) ==
    \A node \in Nodes : Active(r, node) => field[node + 1].kind = "zero"

(* C12: a solve whose field is NaN at every node of the region, or zero at *)
(* every node of the region, logs a diagnostic, and the field is published *)
(* on the support all the same.                                            *)
C12_DegenerateDiagnostic ==
    [][(/\ op'.name = "_solve"
        /\ op'.solved
        /\ \/ AllNanInRegion(c', region)
           \/ AllZeroInRegion(c', region))
          => /\ op'.warnings # {}
             /\ properties' = c']_vars

----------------------------------------------------------------------------
(* C13: a solve with one of the six backends while no soft row and no      *)
(* equality row is held completes without raising and publishes a field    *)
(* that is NaN at every node of the region.                                *)
C13_EmptySolveAllNan ==
    [][(/\ op'.name = "_solve"
        /\ op'.solver \in SolverNames
        /\ c_ = 0
        /\ eq_const_c_ = 0)
          => /\ op'.solved
             /\ AllNanInRegion(properties', region)]_vars

----------------------------------------------------------------------------
\* the sum of the stored coefficients at (r, j), both counted from 0
TripletSum(vals, rows, cols, r, j) ==
    SumSeq([t \in 1 .. Len(vals) |->
               IF rows[t] = r /\ cols[t] = j THEN vals[t] ELSE 0])

\* entry (r, j) of the soft matrix A and of the equality matrix C
SoftEntry(r, j) == TripletSum(NumberOf(A), row, NumberOf(col), r, j)
EqEntry(e, j) == TripletSum(NumberOf(eq_const_C), eq_const_row, eq_const_col, e, j)

\* entry (i, j) of AtA and entry i of AtB, from the stored triplets
NormalEntry(i, j) ==
    SumSeq([r \in 1 .. c_ |-> SoftEntry(r - 1, i) * SoftEntry(r - 1, j)])
NormalRhs(i) ==
    SumSeq([r \in 1 .. c_ |-> SoftEntry(r - 1, i) * B[r].v])

IsBuild(call, square) ==
    call.name = "build_matrix" /\ call.square = square /\ call.ret = "None"

(* C14: the system build_matrix(square=True) returns has nx + eq_const_c_  *)
(* rows, columns and right-hand-side entries, laid out as [[AtA, Ct],      *)
(* [C, 0]] and [AtB, d]; it carries the diagonal eps only when damp is     *)
(* set, so with damp=False the leading block is AtA exactly; without an    *)
(* equality row it is the nx-by-nx AtA and AtB.                            *)
C14_SquareLayout ==
    IsBuild(op, TRUE) =>
        LET sys == build_matrix(TRUE, op.kwargs.damp)
            n == nx + eq_const_c_
        IN  /\ Len(sys.M) = n
            /\ Len(sys.rhs) = n
            /\ sys.damped = op.kwargs.damp
            /\ \A i \in 1 .. n :
                  /\ Len(sys.M[i]) = n
                  /\ sys.rhs[i] = IF i <= nx THEN NormalRhs(i - 1)
                                  ELSE eq_const_d[i - nx].v
                  /\ \A j \in 1 .. n :
                        sys.M[i][j] =
                            IF i <= nx /\ j <= nx THEN NormalEntry(i - 1, j - 1)
                            ELSE IF i <= nx THEN EqEntry(j - nx - 1, i - 1)
                            ELSE IF j <= nx THEN EqEntry(i - nx - 1, j - 1)
                            ELSE 0

\* an undamped square assembly with two equality rows behind a soft block
\* that has an entry off its diagonal
C14_Witness ==
    /\ IsBuild(op, TRUE)
    /\ ~op.kwargs.damp
    /\ eq_const_c_ = 2
    /\ nx = 2
    /\ c_ > 0
    /\ NormalEntry(0, 1) # 0
    /\ Len(build_matrix(TRUE, FALSE).M) = 4

----------------------------------------------------------------------------
\* every stored soft triplet lies inside the c_ x nx shape
SoftInShape ==
    \A t \in 1 .. Len(row) :
        row[t] \in 0 .. (c_ - 1) /\ col[t].v \in 0 .. (nx - 1)

(* C15: build_matrix(square=False) fails only on a soft triplet outside    *)
(* the c_ x nx shape, never because equality rows are held; what it        *)
(* returns is the c_ x nx matrix of the soft triplets and the c_ stored    *)
(* right-hand sides, whatever the equality stores hold.                    *)
C15_RectangularFromSoft ==
    (op.name = "build_matrix" /\ ~op.square) =>
        /\ (op.ret = "None") = SoftInShape
        /\ op.ret = "None" =>
              LET sys == build_matrix(FALSE, op.kwargs.damp)
              IN  /\ Len(sys.M) = c_
                  /\ \A r \in 1 .. c_ :
                        /\ Len(sys.M[r]) = nx
                        /\ \A j \in 1 .. nx : sys.M[r][j] = SoftEntry(r - 1, j - 1)
                  /\ Len(sys.rhs) = c_
                  /\ \A r \in 1 .. c_ : sys.rhs[r] = B[r].v

\* a rectangular assembly of two soft rows while an equality row is held
C15_Witness ==
    /\ op.name = "build_matrix"
    /\ ~op.square
    /\ op.ret = "None"
    /\ c_ = 2
    /\ nx = 2
    /\ eq_const_c_ > 0
    /\ build_matrix(FALSE, TRUE).M[1] = <<2, 1>>

----------------------------------------------------------------------------
(* C16: region_map sends every active node to its rank among the active    *)
(* nodes (the identity while no region was set) and every inactive node    *)
(* to a value that is not a local index, that is, not in 0 .. nx-1.        *)
C16_CompactionMap ==
    \A node \in Nodes :
        IF Active(region, node)
        THEN region_map[node + 1] = LocalIndex(region, node)
        ELSE region_map[node + 1] \notin 0 .. (nx - 1)

----------------------------------------------------------------------------
ActiveCount(r) == Cardinality({node \in Nodes : Active(r, node)})

(* C17: nx is the number of active nodes before and after every step: the  *)
(* node count of the support at the start, and after set_region the        *)
(* number of nodes its predicate is true for; set_region leaves the soft   *)
(* and equality stores, their counters and everything but region,          *)
(* region_map and nx as they were.                                         *)
C17_RegionSize ==
    [][/\ nx = ActiveCount(region)
       /\ nx' = ActiveCount(region')
       /\ op.name = "init" => nx = NNodes
       /\ op'.name = "set_region" =>
             /\ nx' = Cardinality({i \in 1 .. NNodes : op'.mask[i]})
             /\ soft' = soft
             /\ equality' = equality
             /\ solvevars' = solvevars]_vars

\* set_region has cut the region to one node while both stores hold rows
C17_Witness ==
    /\ op.name = "set_region"
    /\ nx = 1
    /\ ActiveCount(region) = 1
    /\ c_ > 0
    /\ eq_const_c_ > 0

----------------------------------------------------------------------------
Symmetric(M) ==
    \A i \in 1 .. Len(M) : \A j \in 1 .. Len(M) : M[i][j] = M[j][i]

(* C18: the matrix build_matrix(square=True) returns is symmetric, with or *)
(* without equality rows and with or without damping; and the system a     *)
(* solve hands to its backend is the rectangular one for lsqr and the      *)
(* square one for every other backend.                                     *)
C18_SymmetricSquare ==
    [][/\ (op'.name = "build_matrix" /\ op'.square /\ op'.ret = "None")
             => Symmetric(build_matrix(TRUE, op'.kwargs.damp).M)
       /\ (op'.name = "_solve" /\ op'.solved)
             => \A i \in 1 .. Len(properties') :
                   properties'[i].kind = "sol"
                       => properties'[i].sys.square = (properties'[i].by # "lsqr")]_vars

\* a damped square assembly with an equality row and an entry off the
\* diagonal of the soft block, after an lsqr solve published its field
C18_Witness ==
    /\ IsBuild(op, TRUE)
    /\ op.kwargs.damp
    /\ eq_const_c_ > 0
    /\ nx = 2
    /\ NormalEntry(0, 1) # 0
    /\ properties # <<>>
    /\ properties[1].kind = "sol"
    /\ properties[1].by = "lsqr"
    /\ ~properties[1].sys.square

----------------------------------------------------------------------------
(* C19: the retained equality constraints sit on pairwise distinct rows    *)
(* that are exactly 0 .. eq_const_c_-1: every row of the equality block    *)
(* holds one entry, no row holds two and none is empty.                    *)
C19_EqualityRowsDistinct ==
    /\ Len(eq_const_row) = eq_const_c_
    /\ \A e \in 0 .. (eq_const_c_ - 1) :
          Cardinality({t \in 1 .. Len(eq_const_row) : eq_const_row[t] = e}) = 1

====
